---------------------------- MODULE Spec2Model ----------------------------
(***************************************************************************)
(* Model of src/scrape.js: the allotment scraper.  scrapeAllotments() is   *)
(* one sequential async function; every `await` on the browser is a step   *)
(* that either settles or throws (a timeout or a navigation error).  The   *)
(* model follows the function statement by statement, with the remote      *)
(* site and the browser session as the environment: every awaited step     *)
(* chooses nondeterministically between settling and throwing.             *)
(***************************************************************************)
EXTENDS Integers, Sequences, FiniteSets, TLC

(***************************************************************************)
(* Bounds of the model.                                                    *)
(***************************************************************************)
\* number of real colleges the site offers in its top-level dropdown
NumColleges == 2
MaxFieldLen == 2
MaxTextLen == 2
MaxTableRows == 4

(***************************************************************************)
(* The remote site.  Labels are sequences of characters (the file names    *)
(* are computed from them character by character), values are strings.     *)
(* The site's data is fixed during one crawl.  The labels of the second    *)
(* college and of its branch differ from those of the first college and    *)
(* its first branch only in a special character and in a run of blanks.    *)
(***************************************************************************)
CollegePool ==
  << [name |-> <<"A">>,                     value |-> "A"],
     [name |-> <<"A", ".">>,                value |-> "0"],
     [name |-> <<"C">>,                     value |-> "C"],
     [name |-> <<"D", " ", "E">>,           value |-> "D"] >>

BranchPool ==
  << [name |-> <<"X", " ", "1">>,      value |-> "X"],
     [name |-> <<"Y", "&", "Y">>,      value |-> ""],
     [name |-> <<"X", " ", " ", "1">>, value |-> "Z"],
     [name |-> <<"W">>,           value |-> "W"],
     [name |-> <<"V", " ", "V">>, value |-> "V"],
     [name |-> <<"U">>,           value |-> "U"] >>

\* the "--Select--" entries the site puts first in each dropdown
CollegePlaceholder == [name |-> <<"-", "-">>, value |-> ""]
BranchPlaceholder  == [name |-> <<"-", "-">>, value |-> "0"]

\* every third college has one branch, the others have two
BranchCount(i) == IF i % 3 = 0 THEN 1 ELSE 2

RECURSIVE BranchOffset(_)
BranchOffset(i) == IF i <= 1 THEN 0 ELSE BranchOffset(i - 1) + BranchCount(i - 1)

\* the options of the top-level dropdown of the live form
SiteCollegeOptions ==
  <<CollegePlaceholder>> \o [i \in 1..NumColleges |-> CollegePool[i]]

CollegeIndex(v) ==
  IF \E i \in 1..NumColleges : CollegePool[i].value = v
  THEN CHOOSE i \in 1..NumColleges : CollegePool[i].value = v
  ELSE 0

\* the options of the second-level dropdown of a form page whose active
\* top-level value is v: the population is conditioned on the college
SiteBranchOptions(v) ==
  IF CollegeIndex(v) = 0
  THEN <<BranchPlaceholder>>
  ELSE <<BranchPlaceholder>> \o
       [j \in 1..BranchCount(CollegeIndex(v)) |->
          BranchPool[BranchOffset(CollegeIndex(v)) + j]]

\* the rows of table.sortable on the results page of a leaf; a row is the
\* sequence of the texts of its td cells, row 1 is the header (th cells only)
FullRow(sno, rank) ==
  <<sno, <<"H", "1">>, rank, <<" ", "N", " ">>, <<"F">>, <<"O", "C">>, <<"O", "U">>, <<"C">> >>

\* the results page of a leaf without allotments may show no table.sortable
\* at all
TablePresent(top, second) == second # "W"

SiteTable(top, second) ==
  IF second = "X"
  THEN << <<>>, FullRow(<<"1">>, <<"1", "0">>), << <<"n">> >>, FullRow(<<"2">>, <<>>) >>
  ELSE IF second = "" THEN << <<>> >>
  ELSE IF second = "Z" THEN << <<>>, FullRow(<<"x">>, <<" ", "7">>) >>
  ELSE << <<>>, FullRow(<<"1">>, <<"3">>), FullRow(<<"2">>, <<"4">>) >>

(***************************************************************************)
(* Pure helpers of the program.                                            *)
(***************************************************************************)
Letters ==
  {"a","b","c","d","e","f","g","h","i","j","k","l","m",
   "n","o","p","q","r","s","t","u","v","w","x","y","z",
   "A","B","C","D","E","F","G","H","I","J","K","L","M",
   "N","O","P","Q","R","S","T","U","V","W","X","Y","Z"}
Digits == {"0","1","2","3","4","5","6","7","8","9"}

\* variant of FilterOptions with one rule for both dropdowns: "" and "0" are
\* both taken for placeholders
FilterOptionsEitherSentinel(options, sentinel) ==
  SelectSeq(options, LAMBDA opt : opt.value \notin {"", "0"})

\* .filter(opt => opt.value !== sentinel) over the options of a dropdown
RECURSIVE FilterOptions(_, _)
FilterOptions(options, sentinel) ==
  IF options = <<>> THEN <<>>
  ELSE IF Head(options).value # sentinel
       THEN <<Head(options)>> \o FilterOptions(Tail(options), sentinel)
       ELSE FilterOptions(Tail(options), sentinel)

\* name.replace(/[^a-zA-Z0-9 ]/g, "")
RECURSIVE StripSpecial(_)
StripSpecial(name) ==
  IF name = <<>> THEN <<>>
  ELSE IF Head(name) \in Letters \cup Digits \cup {" "}
       THEN <<Head(name)>> \o StripSpecial(Tail(name))
       ELSE StripSpecial(Tail(name))

\* .replace(/\s+/g, "_"): every maximal run of blanks becomes one "_"
RECURSIVE CollapseBlanks(_)
CollapseBlanks(name) ==
  IF name = <<>> THEN <<>>
  ELSE IF Head(name) = " "
       THEN IF Len(name) > 1 /\ name[2] = " "
            THEN CollapseBlanks(Tail(name))
            ELSE <<"_">> \o CollapseBlanks(Tail(name))
       ELSE <<Head(name)>> \o CollapseBlanks(Tail(name))

\* the folder name of a college and the stem of a branch's file name
SanitizeName(name) == CollapseBlanks(StripSpecial(name))

\* path.resolve(collegeDir, branchFileName) below the base output folder
OutputPath(collegeName, branchName) ==
  <<SanitizeName(collegeName), SanitizeName(branchName) \o <<".", "c", "s", "v">> >>

\* String.prototype.trim on a cell text
RECURSIVE TrimLeft(_)
TrimLeft(t) == IF t # <<>> /\ Head(t) = " " THEN TrimLeft(Tail(t)) ELSE t
RECURSIVE TrimRight(_)
TrimRight(t) ==
  IF t # <<>> /\ t[Len(t)] = " " THEN TrimRight(SubSeq(t, 1, Len(t) - 1)) ELSE t
Trim(t) == TrimLeft(TrimRight(t))

\* cells[k]?.innerText.trim(): undefined when the row has no such cell
Undefined == <<"undefined">>
CellText(cells, k) == IF k <= Len(cells) THEN Trim(cells[k]) ELSE Undefined

DigitValue(c) ==
  CASE c = "0" -> 0 [] c = "1" -> 1 [] c = "2" -> 2 [] c = "3" -> 3
    [] c = "4" -> 4 [] c = "5" -> 5 [] c = "6" -> 6 [] c = "7" -> 7
    [] c = "8" -> 8 [] c = "9" -> 9

RECURSIVE DecimalValue(_)
DecimalValue(t) ==
  IF t = <<>> THEN 0
  ELSE 10 * DecimalValue(SubSeq(t, 1, Len(t) - 1)) + DigitValue(t[Len(t)])

\* unary plus on a trimmed text: the empty text is 0, a run of decimal digits
\* is its value, undefined and every other text of the alphabet is NaN
NaN == <<"NaN", 0>>
ToNumber(t) ==
  IF t = Undefined THEN NaN
  ELSE IF t = <<>> THEN <<"num", 0>>
  ELSE IF \A k \in 1..Len(t) : t[k] \in Digits THEN <<"num", DecimalValue(t)>>
  ELSE NaN

\* one record of the results table, from the td cells of a row
RowRecord(cells) ==
  [ sno          |-> ToNumber(CellText(cells, 1)),
    hallticketno |-> CellText(cells, 2),
    rank         |-> ToNumber(CellText(cells, 3)),
    name         |-> CellText(cells, 4),
    sex          |-> CellText(cells, 5),
    caste        |-> CellText(cells, 6),
    region       |-> CellText(cells, 7),
    seatcategory |-> CellText(cells, 8) ]

\* variant of ExtractFrom that keeps every row with a td cell
RECURSIVE ExtractFromAnyCell(_, _)
ExtractFromAnyCell(rows, i) ==
  IF i > Len(rows) THEN <<>>
  ELSE IF Len(rows[i]) > 0
       THEN <<RowRecord(rows[i])>> \o ExtractFromAnyCell(rows, i + 1)
       ELSE ExtractFromAnyCell(rows, i + 1)

\* the evaluate() callback: rows 2..N of the table (row 1 is the header),
\* keeping the rows with more than one td cell
RECURSIVE ExtractFrom(_, _)
ExtractFrom(rows, i) ==
  IF i > Len(rows) THEN <<>>
  ELSE IF Len(rows[i]) > 1
       THEN <<RowRecord(rows[i])>> \o ExtractFrom(rows, i + 1)
       ELSE ExtractFrom(rows, i + 1)

ExtractTable(rows) == ExtractFrom(rows, 2)

(***************************************************************************)
(* convertToCsv (lines 14-45).  An object is the sequence of its           *)
(* <<key, value>> properties in insertion order; keys and string values    *)
(* are sequences of characters; the other values are Undefined (null or    *)
(* undefined), <<"num", n>> and NaN.  The text returned is a sequence of   *)
(* characters.                                                             *)
(***************************************************************************)
Quote   == "\""
Comma   == ","
NewLine == "\n"

IsNumber(value)  == Len(value) = 2 /\ value[1] = "num"
IsNaN(value)     == Len(value) = 2 /\ value[1] = "NaN"
IsNullish(value) == Len(value) = 1 /\ value[1] = "undefined"
IsString(value)  == ~IsNumber(value) /\ ~IsNaN(value) /\ ~IsNullish(value)

\* Object.keys(object)
ObjectKeys(object) == [i \in 1..Len(object) |-> object[i][1]]

\* object[key]: undefined when the object has no such property
Get(object, key) ==
  IF \E i \in 1..Len(object) : object[i][1] = key
  THEN object[CHOOSE i \in 1..Len(object) : object[i][1] = key][2]
  ELSE Undefined

DigitChar(d) ==
  CASE d = 0 -> "0" [] d = 1 -> "1" [] d = 2 -> "2" [] d = 3 -> "3"
    [] d = 4 -> "4" [] d = 5 -> "5" [] d = 6 -> "6" [] d = 7 -> "7"
    [] d = 8 -> "8" [] d = 9 -> "9"

\* what Array.prototype.join makes of a number
RECURSIVE DecimalText(_)
DecimalText(n) ==
  IF n < 10 THEN <<DigitChar(n)>> ELSE DecimalText(n \div 10) \o <<DigitChar(n % 10)>>

\* variant of DoubleQuotes that leaves the text as it is
KeepQuotes(text) == text

\* line 31: value.replace(/"/g, '""')
RECURSIVE DoubleQuotes(_)
DoubleQuotes(text) ==
  IF text = <<>> THEN <<>>
  ELSE IF Head(text) = Quote
       THEN <<Quote, Quote>> \o DoubleQuotes(Tail(text))
       ELSE <<Head(text)>> \o DoubleQuotes(Tail(text))

Includes(text, c) == \E i \in 1..Len(text) : text[i] = c

\* lines 28-38 and the join of line 39: the text of one value
SerializeValue(value) ==
  IF IsNullish(value) THEN <<>>
  ELSE IF IsNumber(value) THEN DecimalText(value[2])
  ELSE IF IsNaN(value) THEN <<"N", "a", "N">>
  ELSE LET doubled == DoubleQuotes(value) IN
       IF Includes(doubled, Comma) \/ Includes(doubled, NewLine)
       THEN <<Quote>> \o doubled \o <<Quote>>
       ELSE doubled

\* Array.prototype.join
RECURSIVE Join(_, _)
Join(texts, separator) ==
  IF texts = <<>> THEN <<>>
  ELSE IF Len(texts) = 1 THEN texts[1]
  ELSE texts[1] \o <<separator>> \o Join(Tail(texts), separator)

\* line 23: every header between quotes
HeaderRow(headers) ==
  Join([i \in 1..Len(headers) |-> <<Quote>> \o headers[i] \o <<Quote>>], Comma)

\* lines 26-40: the values of one row, in header order
DataRow(headers, row) ==
  Join([i \in 1..Len(headers) |-> SerializeValue(Get(row, headers[i]))], Comma)

convertToCsv(data) ==
  IF Len(data) = 0 THEN <<>>
  ELSE LET headers == ObjectKeys(data[1]) IN
       Join(<<HeaderRow(headers)>> \o [r \in 1..Len(data) |-> DataRow(headers, data[r])],
            NewLine)

(***************************************************************************)
(* State.                                                                  *)
(***************************************************************************)
VARIABLES
  pc,            \* the statement scrapeAllotments() is at
  browser,       \* "none", "open" or "closed": the launched browser
  page,          \* "none", "form" or "results": what newPage shows
  activeTop,     \* Session State: value selected in the college dropdown
  activeSecond,  \* Session State: value selected in the branch dropdown
  colleges,      \* const colleges (line 86)
  ci,            \* position of the for..of over colleges
  branches,      \* const branches (line 121) of the current college
  bi,            \* position of the for..of over branches
  tableData,     \* const tableData (line 152) of the current leaf
  files,         \* the paths written below the base output folder
  log,           \* what console.log / console.error have printed
  fn,            \* the function that is run
  arg,           \* its argument
  result         \* what it returned

vars == <<pc, browser, page, activeTop, activeSecond, colleges, ci,
          branches, bi, tableData, files, log, fn, arg, result>>

crawl == <<pc, browser, page, activeTop, activeSecond, colleges, ci,
           branches, bi, tableData, files, log>>
call  == <<fn, arg, result>>

session == <<page, activeTop, activeSecond>>
cursor  == <<colleges, ci, branches, bi>>

NoName == <<>>

\* one printed line: what it reports, for which college and branch
Line(ev, collegeName, branchName, n) ==
  [ev |-> ev, college |-> collegeName, branch |-> branchName, n |-> n]

college == colleges[ci]
branch  == branches[bi]

CollegeLine(ev, n) == Line(ev, college.name, NoName, n)
LeafLine(ev, n)    == Line(ev, college.name, branch.name, n)

Init ==
  /\ pc = "Launch"
  /\ browser = "none"
  /\ page = "none"
  /\ activeTop = ""
  /\ activeSecond = "0"
  /\ colleges = <<>>
  /\ ci = 0
  /\ branches = <<>>
  /\ bi = 0
  /\ tableData = <<>>
  /\ files = {}
  /\ log = <<>>
  /\ fn = "scrapeAllotments"
  /\ arg = <<>>
  /\ result = <<>>

(***************************************************************************)
(* The browser session (puppeteer and the remote site).                    *)
(***************************************************************************)
\* page.select(collegeSelector, v) followed by the postback reload: the form
\* comes back with v active and the branch dropdown repopulated, unselected
TopAfterSelect(current, v) ==
  IF \E k \in 1..Len(SiteCollegeOptions) : SiteCollegeOptions[k].value = v
  THEN v ELSE current

\* page.select(branchSelector, v): selects v if the live dropdown offers it
SecondAfterSelect(top, current, v) ==
  IF \E k \in 1..Len(SiteBranchOptions(top)) : SiteBranchOptions(top)[k].value = v
  THEN v ELSE current

\* an uncaught rejection leaves scrapeAllotments(); .catch(console.error)
\* prints it (line 222)
Abort ==
  /\ pc' = "Aborted"
  /\ log' = Append(log, Line("UncaughtError", NoName, NoName, 0))

(***************************************************************************)
(* scrapeAllotments(), statement by statement.                             *)
(***************************************************************************)
\* lines 48-50: puppeteer.launch
Launch ==
  /\ pc = "Launch"
  /\ \E ok \in BOOLEAN :
       IF ok
       THEN /\ browser' = "open"
            /\ pc' = "OpenEntryPoint"
            /\ log' = Append(log, Line("Starting", NoName, NoName, 0))
       ELSE /\ Abort
            /\ UNCHANGED browser
  /\ UNCHANGED <<session, cursor, tableData, files>>
  /\ UNCHANGED call

\* lines 53-82: gateway page, the college allotment link, the new tab
OpenEntryPoint ==
  /\ pc = "OpenEntryPoint"
  /\ \E ok \in BOOLEAN :
       IF ok
       THEN /\ page' = "form"
            /\ activeTop' = ""
            /\ activeSecond' = "0"
            /\ pc' = "ListColleges"
            /\ log' = Append(log, Line("NewPageLoaded", NoName, NoName, 0))
       ELSE /\ Abort
            /\ UNCHANGED session
  /\ UNCHANGED <<browser, cursor, tableData, files>>
  /\ UNCHANGED call

\* lines 84-98: read the college dropdown, make the base folder
ListColleges ==
  /\ pc = "ListColleges"
  /\ \E ok \in BOOLEAN :
       IF ok
       THEN /\ colleges' = FilterOptions(SiteCollegeOptions, "")
            /\ pc' = "NextCollege"
            /\ log' = Append(log, Line("FoundColleges", NoName, NoName,
                                       Len(FilterOptions(SiteCollegeOptions, ""))))
       ELSE /\ Abort
            /\ UNCHANGED colleges
  /\ UNCHANGED <<browser, session, ci, branches, bi, tableData, files>>
  /\ UNCHANGED call

\* line 101: the head of for (const college of colleges); lines 102-110
NextCollege ==
  /\ pc = "NextCollege"
  /\ IF ci < Len(colleges)
     THEN /\ ci' = ci + 1
          /\ pc' = "SelectCollege"
          /\ log' = Append(log, Line("ProcessingCollege", colleges[ci + 1].name, NoName, 0))
     ELSE /\ pc' = "Finish"
          /\ UNCHANGED <<ci, log>>
  /\ branches' = <<>>
  /\ bi' = 0
  /\ UNCHANGED <<browser, session, colleges, tableData, files>>
  /\ UNCHANGED call

\* variant of SelectCollege that does not wait for the reload: the branch
\* dropdown is then read from the form as the previous steps left it
SelectCollegeNoWait ==
  /\ pc = "SelectCollege"
  /\ pc' = "ListBranches"
  /\ log' = Append(log, CollegeLine("CollegeSelected", 0))
  /\ UNCHANGED <<browser, session, cursor, tableData, files>>
  /\ UNCHANGED call

\* lines 112-116: select the college and wait for the reload; not in a try
SelectCollege ==
  /\ pc = "SelectCollege"
  /\ \E ok \in BOOLEAN :
       IF ok
       THEN /\ page' = "form"
            /\ activeTop' = TopAfterSelect(activeTop, college.value)
            /\ activeSecond' = "0"
            /\ pc' = "ListBranches"
            /\ log' = Append(log, CollegeLine("CollegeSelected", 0))
       ELSE /\ Abort
            /\ UNCHANGED session
  /\ UNCHANGED <<browser, cursor, tableData, files>>
  /\ UNCHANGED call

\* lines 118-126: read the branch dropdown of the live form; not in a try
ListBranches ==
  /\ pc = "ListBranches"
  /\ \E ok \in BOOLEAN :
       IF ok
       THEN /\ branches' = FilterOptions(SiteBranchOptions(activeTop), "0")
            /\ pc' = "NextBranch"
            /\ log' = Append(log, CollegeLine("FoundBranches",
                         Len(FilterOptions(SiteBranchOptions(activeTop), "0"))))
       ELSE /\ Abort
            /\ UNCHANGED branches
  /\ UNCHANGED <<browser, session, colleges, ci, bi, tableData, files>>
  /\ UNCHANGED call

\* line 129: the head of for (const branch of branches); line 131 opens the try
NextBranch ==
  /\ pc = "NextBranch"
  /\ IF bi < Len(branches)
     THEN /\ bi' = bi + 1
          /\ pc' = "LeafSelectTop"
          /\ log' = Append(log, Line("Fetching", college.name, branches[bi + 1].name, 0))
     ELSE /\ pc' = "NextCollege"
          /\ UNCHANGED <<bi, log>>
  /\ tableData' = <<>>
  /\ UNCHANGED <<browser, session, colleges, ci, branches, files>>
  /\ UNCHANGED call

\* line 197-202: a throw inside the try enters the catch block, which
\* reports the leaf and starts the recovery go-back
Throw ==
  /\ pc' = "Catch"
  /\ log' = log \o <<LeafLine("CouldNotFetch", 0), LeafLine("AttemptingGoBack", 0)>>

\* variant of LeafSelectTop without the re-selection of the college
LeafSelectTopNoReassert ==
  /\ pc = "LeafSelectTop"
  /\ \E ok \in BOOLEAN :
       IF ok
       THEN /\ pc' = "LeafSelectSecond"
            /\ UNCHANGED <<session, log>>
       ELSE /\ Throw
            /\ UNCHANGED session
  /\ UNCHANGED <<browser, cursor, tableData, files>>
  /\ UNCHANGED call

\* lines 133-137: re-select the college and wait for the reload
LeafSelectTop ==
  /\ pc = "LeafSelectTop"
  /\ \E ok \in BOOLEAN :
       IF ok
       THEN /\ page' = "form"
            /\ activeTop' = TopAfterSelect(activeTop, college.value)
            /\ activeSecond' = "0"
            /\ pc' = "LeafSelectSecond"
            /\ UNCHANGED log
       ELSE /\ Throw
            /\ UNCHANGED session
  /\ UNCHANGED <<browser, cursor, tableData, files>>
  /\ UNCHANGED call

\* line 139: select the branch (no navigation); line 144
LeafSelectSecond ==
  /\ pc = "LeafSelectSecond"
  /\ \E ok \in BOOLEAN :
       IF ok
       THEN /\ activeSecond' = SecondAfterSelect(activeTop, activeSecond, branch.value)
            /\ pc' = "Submit"
            /\ log' = Append(log, LeafLine("ClickingSubmit", 0))
       ELSE /\ Throw
            /\ UNCHANGED activeSecond
  /\ UNCHANGED <<browser, page, activeTop, cursor, tableData, files>>
  /\ UNCHANGED call

\* variant of Submit that does not wait for the results navigation
SubmitNoWait ==
  /\ pc = "Submit"
  /\ pc' = "Extract"
  /\ log' = Append(log, LeafLine("ResultsLoaded", 0))
  /\ UNCHANGED <<browser, session, cursor, tableData, files>>
  /\ UNCHANGED call

\* lines 145-150: click submit and wait for the results view; when the wait
\* throws, the results navigation may or may not have happened
Submit ==
  /\ pc = "Submit"
  /\ \E ok \in BOOLEAN :
       IF ok
       THEN /\ page' = "results"
            /\ pc' = "Extract"
            /\ log' = Append(log, LeafLine("ResultsLoaded", 0))
       ELSE /\ page' \in {"form", "results"}
            /\ Throw
  /\ UNCHANGED <<browser, activeTop, activeSecond, cursor, tableData, files>>
  /\ UNCHANGED call

\* variant of FilesAfterPersist that writes the file whatever was read
FilesAfterPersistAlways(written, data, path) == written \cup {path}

\* lines 175-189: the file is written only when there are records
FilesAfterPersist(written, data, path) ==
  IF Len(data) > 0 THEN written \cup {path} ELSE written

\* lines 173-192: what is printed once the table has been read
LinesAfterScrape(data) ==
  << LeafLine("Scraped", Len(data)),
     IF Len(data) > 0 THEN LeafLine("Saved", Len(data)) ELSE LeafLine("NoData", 0),
     LeafLine("GoingBack", 0) >>

\* lines 151-192: wait for table.sortable and read its rows; the code up to
\* the next await (the file write, the go-back request) runs with it;
\* waitForSelector throws when the page has no such table
Extract ==
  /\ pc = "Extract"
  /\ \E ok \in BOOLEAN :
       IF ok /\ TablePresent(activeTop, activeSecond)
       THEN /\ tableData' = ExtractTable(SiteTable(activeTop, activeSecond))
            /\ files' = FilesAfterPersist(files, tableData',
                                          OutputPath(college.name, branch.name))
            /\ log' = log \o LinesAfterScrape(tableData')
            /\ pc' = "GoBack"
       ELSE /\ Throw
            /\ UNCHANGED <<tableData, files>>
  /\ UNCHANGED <<browser, session, cursor>>
  /\ UNCHANGED call

\* lines 193-195: history back and wait; the form may come back with the
\* selections restored or reset; when the wait throws, the history-back
\* may or may not have happened
GoBack ==
  /\ pc = "GoBack"
  /\ \E ok \in BOOLEAN :
       IF ok
       THEN /\ page' = "form"
            /\ \E restored \in BOOLEAN :
                 /\ activeTop' = IF restored THEN activeTop ELSE ""
                 /\ activeSecond' = IF restored THEN activeSecond ELSE "0"
            /\ pc' = "NextBranch"
            /\ log' = Append(log, LeafLine("Returned", 0))
       ELSE /\ page' \in {"form", "results"}
            /\ Throw
            /\ UNCHANGED <<activeTop, activeSecond>>
  /\ UNCHANGED <<browser, cursor, tableData, files>>
  /\ UNCHANGED call

\* variant of Catch whose inner catch prints nothing before the break
CatchSilentBreak ==
  /\ pc = "Catch"
  /\ \E ok \in BOOLEAN :
       IF ok
       THEN /\ page' = "form"
            /\ \E restored \in BOOLEAN :
                 /\ activeTop' = IF restored THEN activeTop ELSE ""
                 /\ activeSecond' = IF restored THEN activeSecond ELSE "0"
            /\ pc' = "NextBranch"
            /\ log' = Append(log, LeafLine("ReturnedAfterError", 0))
       ELSE /\ pc' = "NextCollege"
            /\ UNCHANGED <<session, log>>
  /\ UNCHANGED <<browser, cursor, tableData, files>>
  /\ UNCHANGED call

\* variant of Catch without the break: the branch loop goes on
CatchNoBreak ==
  /\ pc = "Catch"
  /\ \E ok \in BOOLEAN :
       /\ pc' = "NextBranch"
       /\ log' = Append(log, LeafLine(IF ok THEN "ReturnedAfterError"
                                            ELSE "FailedToGoBack", 0))
       /\ IF ok THEN page' = "form" ELSE page' = page
  /\ UNCHANGED <<browser, activeTop, activeSecond, cursor, tableData, files>>
  /\ UNCHANGED call

\* lines 203-211: the recovery go-back of the catch block; when it throws
\* too, break leaves the branch loop
Catch ==
  /\ pc = "Catch"
  /\ \E ok \in BOOLEAN :
       IF ok
       THEN /\ page' = "form"
            /\ \E restored \in BOOLEAN :
                 /\ activeTop' = IF restored THEN activeTop ELSE ""
                 /\ activeSecond' = IF restored THEN activeSecond ELSE "0"
            /\ pc' = "NextBranch"
            /\ log' = Append(log, LeafLine("ReturnedAfterError", 0))
       ELSE /\ pc' = "NextCollege"
            /\ log' = Append(log, LeafLine("FailedToGoBack", 0))
            /\ UNCHANGED session
  /\ UNCHANGED <<browser, cursor, tableData, files>>
  /\ UNCHANGED call

\* lines 216-218: after the last college
Finish ==
  /\ pc = "Finish"
  /\ browser' = "closed"
  /\ pc' = "Done"
  /\ log' = Append(log, Line("Complete", NoName, NoName, 0))
  /\ UNCHANGED <<session, cursor, tableData, files>>
  /\ UNCHANGED call

Next ==
  \/ Launch
  \/ OpenEntryPoint
  \/ ListColleges
  \/ NextCollege
  \/ SelectCollege
  \/ ListBranches
  \/ NextBranch
  \/ LeafSelectTop
  \/ LeafSelectSecond
  \/ Submit
  \/ Extract
  \/ GoBack
  \/ Catch
  \/ Finish

Spec == Init /\ [][Next]_vars

\* the function runs on the event loop until it returns or rejects: every
\* awaited step eventually settles or times out
FairSpec == Spec /\ WF_vars(Next)

(***************************************************************************)
(* The two pure functions of the file, run on their own: convertToCsv on   *)
(* arrays of objects and the evaluate() callback on the rows of a table.   *)
(***************************************************************************)
Strings(alphabet, n) == UNION { [1..k -> alphabet] : k \in 0..n }

FieldAlphabet == {"a", Quote, Comma, NewLine}
KeyA == <<"k">>
KeyB == <<"m">>

\* He said "hi", bye
Example ==
  <<"H", "e", " ", "s", "a", "i", "d", " ", Quote, "h", "i", Quote, Comma,
    " ", "b", "y", "e">>

CsvValues ==
  Strings(FieldAlphabet, MaxFieldLen) \cup {Example, Undefined, <<"num", 12>>, NaN}

\* arrays of one or two objects with one or two properties; an object may
\* lack the property of the first one
CsvData ==
  {<<>>}
  \cup { << <<<<KeyA, v>>>> >> : v \in CsvValues }
  \cup { << <<<<KeyA, v>>>>, <<>> >> : v \in CsvValues }
  \cup { << <<<<KeyA, v[1]>>, <<KeyB, v[2]>>>> >> : v \in CsvValues \X CsvValues }
  \cup { << <<<<KeyA, v[1]>>>>, <<<<KeyA, v[2]>>>> >> : v \in CsvValues \X CsvValues }

TextAlphabet == {"1", "7", " ", "a"}
CellTexts == Strings(TextAlphabet, MaxTextLen)

\* rows without td cells, with one, with two and with all eight
RowShapes(t) ==
  { <<>>, << <<"n">> >>, <<t, <<"H">>>>, FullRow(t, t) }

Tables ==
  UNION { UNION { [1..n -> RowShapes(t)] : n \in 0..MaxTableRows } : t \in CellTexts }

PureInit ==
  /\ pc = "Call"
  /\ browser = "none"
  /\ page = "none"
  /\ activeTop = ""
  /\ activeSecond = "0"
  /\ colleges = <<>>
  /\ ci = 0
  /\ branches = <<>>
  /\ bi = 0
  /\ tableData = <<>>
  /\ files = {}
  /\ log = <<>>
  /\ result = <<>>
  /\ \/ fn = "convertToCsv" /\ arg \in CsvData
     \/ fn = "evaluate" /\ arg \in Tables

\* lines 14-45
CallConvertToCsv ==
  /\ pc = "Call"
  /\ fn = "convertToCsv"
  /\ result' = convertToCsv(arg)
  /\ pc' = "Return"
  /\ UNCHANGED <<browser, session, cursor, tableData, files, log, fn, arg>>

\* lines 152-172
CallEvaluate ==
  /\ pc = "Call"
  /\ fn = "evaluate"
  /\ result' = ExtractTable(arg)
  /\ pc' = "Return"
  /\ UNCHANGED <<browser, session, cursor, tableData, files, log, fn, arg>>

PureNext == CallConvertToCsv \/ CallEvaluate

PureSpec == PureInit /\ [][PureNext]_vars

(***************************************************************************)
(* Reading the run from what was printed.                                  *)
(***************************************************************************)
Positions == 1..Len(log)

\* line 131 is printed exactly when a leaf is attempted
Fetching(k) == log[k].ev = "Fetching"
SameLeaf(j, k) == log[j].college = log[k].college /\ log[j].branch = log[k].branch

Attempted == { <<log[k].college, log[k].branch>> : k \in {j \in Positions : Fetching(j)} }
AttemptedOf(collegeName) == { leaf \in Attempted : leaf[1] = collegeName }

\* the crawl space: what the site offers, by label
SiteColleges == FilterOptions(SiteCollegeOptions, "")
SiteBranchLists ==
  [i \in 1..Len(SiteColleges) |->
     FilterOptions(SiteBranchOptions(SiteColleges[i].value), "0")]
SiteBranches(i) == SiteBranchLists[i]
LeavesOf(i) ==
  { <<SiteColleges[i].name, SiteBranches(i)[j].name>> : j \in 1..Len(SiteBranches(i)) }
AllLeaves == UNION { LeavesOf(i) : i \in 1..Len(SiteColleges) }

RECURSIVE SumOfBranchCounts(_)
SumOfBranchCounts(i) ==
  IF i = 0 THEN 0 ELSE SumOfBranchCounts(i - 1) + Len(SiteBranches(i))

NumberOfAttempts == Cardinality({ k \in Positions : Fetching(k) })

\* the leaf's own return-to-form step (lines 193-194) threw
ReturnThrewAt(k) ==
  /\ log[k].ev = "GoingBack"
  /\ k < Len(log)
  /\ log[k + 1].ev = "CouldNotFetch"
\* the recovery go-back of the catch block (lines 204-205) threw
RecoveryThrewAt(k) == log[k].ev = "FailedToGoBack"

Enumerated == \E k \in Positions : log[k].ev = "FoundColleges"
Stopped == pc \in {"Done", "Aborted"}

(***************************************************************************)
(* C1: every LeafKey is attempted at most once; in a crawl in which no     *)
(* return-to-form step fails the number of leaf attempts is the sum of     *)
(* the branch counts, every LeafKey being attempted exactly once; a        *)
(* college that a return-to-form fault did not truncate has all of its     *)
(* branches attempted.                                                     *)
(***************************************************************************)
C1_EveryLeafOnce ==
  /\ \A j, k \in Positions : Fetching(j) /\ Fetching(k) /\ SameLeaf(j, k) => j = k
  /\ ( /\ Enumerated
       /\ Stopped
       /\ \A k \in Positions : ~ReturnThrewAt(k) /\ ~RecoveryThrewAt(k) )
     => /\ NumberOfAttempts = SumOfBranchCounts(Len(SiteColleges))
        /\ Attempted = AllLeaves
  /\ (Enumerated /\ Stopped)
     => \A i \in 1..Len(SiteColleges) :
          \/ AttemptedOf(SiteColleges[i].name) = LeavesOf(i)
          \/ /\ \E k \in Positions :
                  RecoveryThrewAt(k) /\ log[k].college = SiteColleges[i].name
             /\ Cardinality(AttemptedOf(SiteColleges[i].name)) < Len(SiteBranches(i))

IsNextCollege(collegeName, nextName) ==
  \E i \in 1..(Len(colleges) - 1) :
    colleges[i].name = collegeName /\ colleges[i + 1].name = nextName

C3_FailureIsolation ==
  /\ \A k \in Positions :
       (log[k].ev \in {"Returned", "ReturnedAfterError"} /\ k < Len(log))
       => \/ Fetching(k + 1) /\ log[k + 1].college = log[k].college
          \/ log[k + 1].ev \in {"ProcessingCollege", "Complete"}
  /\ (Enumerated /\ Stopped)
     => \A leaf \in AllLeaves \ Attempted :
          \E k \in Positions : RecoveryThrewAt(k) /\ log[k].college = leaf[1]

(***************************************************************************)
(* C4: no navigation fault after the top-level enumeration is fatal: when  *)
(* the crawl has stopped it is Done and has visited every college read at  *)
(* crawl start.                                                            *)
(***************************************************************************)
C4_NoFatalFault ==
  (Enumerated /\ Stopped)
  => /\ pc = "Done"
     /\ \A i \in 1..Len(colleges) :
          \E k \in Positions :
            log[k].ev = "ProcessingCollege" /\ log[k].college = colleges[i].name

\* the file of each leaf of the crawl space
PathOfLeaf == [leaf \in AllLeaves |-> OutputPath(leaf[1], leaf[2])]

\* the printed lines that give a leaf its result
ResultLines == {"NoData", "Saved", "CouldNotFetch"}
ReturnLines == {"Returned", "ReturnedAfterError", "FailedToGoBack"}

HasLine(ev, leaf) ==
  \E k \in Positions : log[k].ev = ev /\ log[k].college = leaf[1] /\ log[k].branch = leaf[2]
HasRecords(leaf) ==
  \E k \in Positions :
    /\ log[k].ev = "Scraped" /\ log[k].n > 0
    /\ log[k].college = leaf[1] /\ log[k].branch = leaf[2]

(***************************************************************************)
(* C5: a file has been written for a LeafKey if and only if the leaf's     *)
(* submit succeeded and its extraction yielded at least one record; none   *)
(* is written for an Empty leaf or a leaf whose submit failed, and the     *)
(* file of a leaf with records is written before its return-to-form step   *)
(* begins.                                                                 *)
(***************************************************************************)
C5_FileIffRecords ==
  LET saved == { leaf \in AllLeaves : HasLine("Saved", leaf) } IN
  /\ \A leaf \in AllLeaves :
       /\ leaf \in saved <=> (HasLine("ResultsLoaded", leaf) /\ HasRecords(leaf))
       /\ HasLine("NoData", leaf) => leaf \notin saved
  /\ files = { PathOfLeaf[leaf] : leaf \in saved }
  /\ pc = "GoBack"
     => (Len(tableData) > 0 <=> PathOfLeaf[<<college.name, branch.name>>] \in files)
  /\ \A k \in Positions :
       log[k].ev = "GoingBack"
       => \/ log[k - 1].ev = "Saved" /\ SameLeaf(k - 1, k)
          \/ ~HasRecords(<<log[k].college, log[k].branch>>)

\* one leaf saved, one leaf empty, one leaf whose submit threw
C5_Witness ==
  /\ \E leaf \in AllLeaves : HasLine("Saved", leaf) /\ PathOfLeaf[leaf] \in files
  /\ \E leaf \in AllLeaves : HasLine("NoData", leaf) /\ PathOfLeaf[leaf] \notin files
  /\ \E leaf \in AllLeaves :
       /\ HasLine("ClickingSubmit", leaf) /\ ~HasLine("ResultsLoaded", leaf)
       /\ HasLine("CouldNotFetch", leaf) /\ PathOfLeaf[leaf] \notin files

(***************************************************************************)
(* C6: each attempted leaf is recorded as exactly one of Empty, Records    *)
(* or Failed: never as two of them, and as one of them once its            *)
(* return-to-form step is over.                                            *)
(***************************************************************************)
C6_ExactlyOneResult ==
  /\ \A j, k \in Positions :
       (log[j].ev \in ResultLines /\ log[k].ev \in ResultLines /\ SameLeaf(j, k)) => j = k
  /\ \A k \in Positions :
       log[k].ev \in ReturnLines
       => \E j \in 1..(k - 1) : log[j].ev \in ResultLines /\ SameLeaf(j, k)

(***************************************************************************)
(* C7: for every attempted leaf the college is selected first, then the    *)
(* branch, then submit is triggered; when submit is triggered the active   *)
(* selections of the form are the leaf's college and branch, however the   *)
(* previous return-to-form step left the form.                             *)
(***************************************************************************)
C7_SessionMatchesLeaf ==
  /\ pc = "LeafSelectSecond" => page = "form" /\ activeTop = college.value
  /\ pc = "Submit"
     => /\ page = "form"
        /\ activeTop = college.value
        /\ activeSecond = branch.value
  /\ \A k \in Positions :
       /\ log[k].ev = "ClickingSubmit" => k > 1 /\ Fetching(k - 1) /\ SameLeaf(k - 1, k)
       /\ log[k].ev = "ResultsLoaded"
          => k > 1 /\ log[k - 1].ev = "ClickingSubmit" /\ SameLeaf(k - 1, k)

\* submit is about to be triggered for a second branch, after the previous
\* leaf returned to the form
C7_Witness ==
  /\ pc = "Submit"
  /\ bi = 2
  /\ activeSecond = branch.value
  /\ \E k \in Positions :
       log[k].ev \in {"Returned", "ReturnedAfterError"} /\ log[k].branch = branches[1].name

\* position of a leaf in the enumeration order of the crawl space
CollegeRank(collegeName) ==
  CHOOSE i \in 1..Len(SiteColleges) : SiteColleges[i].name = collegeName
BranchRank(collegeName, branchName) ==
  CHOOSE j \in 1..Len(SiteBranches(CollegeRank(collegeName))) :
    SiteBranches(CollegeRank(collegeName))[j].name = branchName

(***************************************************************************)
(* C9: leaves are processed one at a time in enumeration order; the        *)
(* extraction of a leaf begins only when its submit navigation has         *)
(* settled; no step of the next leaf begins before the current leaf has    *)
(* its result and its return-to-form step is over.                         *)
(***************************************************************************)
C9_StrictOrder ==
  LET attempts == {k \in Positions : Fetching(k)} IN
  /\ \A j, k \in attempts :
       j < k
       => /\ \/ CollegeRank(log[j].college) < CollegeRank(log[k].college)
             \/ /\ log[j].college = log[k].college
                /\ BranchRank(log[j].college, log[j].branch)
                     < BranchRank(log[k].college, log[k].branch)
          /\ \E r \in (j + 1)..(k - 1) :
               /\ log[r].ev \in ResultLines /\ SameLeaf(r, j)
               /\ \E m \in (r + 1)..(k - 1) :
                    log[m].ev \in ReturnLines /\ SameLeaf(m, j)
  /\ \A k \in attempts :
       \/ BranchRank(log[k].college, log[k].branch) = 1
       \/ \E j \in attempts :
            /\ j < k
            /\ log[j].college = log[k].college
            /\ BranchRank(log[j].college, log[j].branch) + 1
                 = BranchRank(log[k].college, log[k].branch)
  /\ pc = "Extract"
     => /\ page = "results"
        /\ log[Len(log)].ev = "ResultsLoaded"
        /\ log[Len(log)].branch = branch.name

\* the last leaf of the crawl space is being extracted after all the others
C9_Witness ==
  /\ pc = "Extract"
  /\ NumberOfAttempts = SumOfBranchCounts(Len(SiteColleges))
  /\ \E k \in Positions : log[k].ev = "CouldNotFetch"

(***************************************************************************)
(* C10: the branch list iterated for a college is the population the live  *)
(* form showed right after that college was selected in this iteration:    *)
(* every attempted LeafKey has its branch in the population of its own     *)
(* college.                                                                *)
(***************************************************************************)
C10_BranchesAreLive ==
  /\ pc \in {"NextBranch", "LeafSelectTop", "LeafSelectSecond", "Submit",
             "Extract", "GoBack", "Catch"}
     => branches = FilterOptions(SiteBranchOptions(college.value), "0")
  /\ \A k \in Positions :
       /\ Fetching(k)
          => \E i \in 1..Len(SiteColleges) :
               /\ SiteColleges[i].name = log[k].college
               /\ \E j \in 1..Len(SiteBranches(i)) :
                    SiteBranches(i)[j].name = log[k].branch
       /\ log[k].ev = "FoundBranches"
          => log[k].n = Len(SiteBranches(CollegeRank(log[k].college)))

\* a branch of the second college is attempted after the first college's
C10_Witness ==
  /\ ci = 2
  /\ pc = "LeafSelectTop"
  /\ branches # FilterOptions(SiteBranchOptions(colleges[1].value), "0")
  /\ \E k \in Positions : Fetching(k) /\ log[k].college = colleges[1].name
  /\ \E k \in Positions : Fetching(k) /\ log[k].college = colleges[2].name

(***************************************************************************)
(* C11: one output file per LeafKey with records: at the end of the crawl  *)
(* the number of distinct files is the number of leaves whose outcome is   *)
(* Records, and two such leaves never share a file, whatever the labels.   *)
(***************************************************************************)
C11_OneFilePerLeaf ==
  LET saved == { leaf \in AllLeaves : HasLine("Saved", leaf) } IN
  /\ pc = "Done" => Cardinality(files) = Cardinality(saved)
  /\ \A l1, l2 \in saved : l1 # l2 => PathOfLeaf[l1] # PathOfLeaf[l2]

(***************************************************************************)
(* C12: when the results view has settled after submit, the leaf is never  *)
(* reported as failed for want of a results table: the table is read, and  *)
(* with no records the leaf is Empty, no file is written and the normal    *)
(* return-to-form step follows.                                            *)
(***************************************************************************)
NoTableLeaves ==
  UNION { { <<SiteColleges[i].name, SiteBranches(i)[j].name>> :
              j \in { n \in 1..Len(SiteBranches(i)) :
                        ~TablePresent(SiteColleges[i].value, SiteBranches(i)[n].value) } } :
          i \in 1..Len(SiteColleges) }

C12_NoTableIsEmpty ==
  \A k \in Positions :
    ( /\ log[k].ev = "ResultsLoaded"
      /\ <<log[k].college, log[k].branch>> \in NoTableLeaves
      /\ k < Len(log) )
    => /\ log[k + 1].ev = "Scraped" /\ log[k + 1].n = 0
       /\ k + 3 <= Len(log)
          => log[k + 2].ev = "NoData" /\ log[k + 3].ev = "GoingBack"

(***************************************************************************)
(* C20: on every path by which the crawl stops, the browser that was       *)
(* launched has been closed.                                               *)
(***************************************************************************)
C20_BrowserClosed == Stopped => browser # "open"

(***************************************************************************)
(* C16: no error is silently swallowed.  Of the printed lines only that of *)
(* line 198 carries the names of the college and the branch; line 208      *)
(* carries none and is identified by the line 198 printed two lines        *)
(* before it.  Every leaf that ends without its table having been read     *)
(* has a "Could not fetch" line naming it; every break out of a college    *)
(* has a "Failed to go back" line right after the "Could not fetch" line   *)
(* of the leaf at which it happened; an uncaught rejection is printed;     *)
(* and when the crawl has stopped every leaf that was never attempted      *)
(* belongs to a college with such a break or follows an uncaught           *)
(* rejection.                                                              *)
(***************************************************************************)
LeafIsOver(k) ==
  \E m \in (k + 1)..Len(log) : log[m].ev \in {"Fetching", "ProcessingCollege", "Complete"}

C16_NoSilentFault ==
  /\ pc = "Catch"
     => /\ Len(log) >= 2
        /\ log[Len(log) - 1] = LeafLine("CouldNotFetch", 0)
        /\ log[Len(log)].ev = "AttemptingGoBack"
  /\ pc = "Aborted" => log[Len(log)].ev = "UncaughtError"
  /\ \A k \in Positions :
       /\ (Fetching(k) /\ (LeafIsOver(k) \/ Stopped))
          => \E m \in (k + 1)..Len(log) :
               log[m].ev \in {"Scraped", "CouldNotFetch"} /\ SameLeaf(k, m)
       /\ RecoveryThrewAt(k)
          => k > 2 /\ log[k - 2].ev = "CouldNotFetch" /\ SameLeaf(k - 2, k)
  /\ Stopped
     => \A leaf \in AllLeaves \ Attempted :
          \/ pc = "Aborted"
          \/ \E k \in Positions :
               /\ RecoveryThrewAt(k)
               /\ log[k - 2].ev = "CouldNotFetch" /\ log[k - 2].college = leaf[1]

\* the crawl is over, a branch was skipped, and the break that skipped it
\* was printed
C16_Witness ==
  /\ pc = "Done"
  /\ AllLeaves \ Attempted # {}
  /\ \E k \in Positions : RecoveryThrewAt(k)

(***************************************************************************)
(* C17: placeholder exclusion.  The colleges read at crawl start are the   *)
(* options of the top-level dropdown whose value is not "", in dropdown    *)
(* order; the branches read for a college are the options of its           *)
(* second-level dropdown whose value is not "0", in dropdown order; no     *)
(* attempted leaf has top value "" or second value "0".  The two rules     *)
(* are independent: an option "0" of the top-level dropdown and an option  *)
(* "" of a second-level dropdown are kept.                                 *)
(***************************************************************************)
IsSelectionOf(kept, options, sentinel) ==
  /\ \A i \in 1..Len(kept) : kept[i].value # sentinel
  /\ \A n \in 1..Len(options) :
       options[n].value # sentinel => \E i \in 1..Len(kept) : kept[i] = options[n]
  /\ \A i, j \in 1..Len(kept) :
       i < j => \E m, n \in 1..Len(options) :
                  m < n /\ options[m] = kept[i] /\ options[n] = kept[j]
  /\ Len(kept) = Cardinality({ n \in 1..Len(options) : options[n].value # sentinel })

C17_PlaceholdersExcluded ==
  /\ Enumerated => IsSelectionOf(colleges, SiteCollegeOptions, "")
  /\ pc \in {"NextBranch", "LeafSelectTop", "LeafSelectSecond", "Submit",
             "Extract", "GoBack", "Catch"}
     => /\ IsSelectionOf(branches, SiteBranchOptions(college.value), "0")
        /\ college.value # ""
  /\ pc \in {"LeafSelectTop", "LeafSelectSecond", "Submit", "Extract", "GoBack", "Catch"}
     => branch.value # "0"

\* a branch whose value is "" is being attempted, and later a branch of the
\* college whose value is "0"
C17_Witness ==
  /\ pc = "Submit"
  /\ college.value = "0"
  /\ \E k \in Positions : Fetching(k) /\ log[k].branch = BranchPool[2].name
  /\ BranchPool[2].value = ""

(***************************************************************************)
(* C18: at most one history-back navigation is issued per attempted leaf,  *)
(* and a history-back is never applied from the form page itself: the      *)
(* recovery go-back is only ever about to be issued on the results page,   *)
(* and no leaf has both its own return-to-form and a recovery go-back.     *)
(***************************************************************************)
C18_OneBackFromResults ==
  /\ pc = "Catch" => page = "results"
  /\ \A j, k \in Positions :
       (log[j].ev = "GoingBack" /\ log[k].ev = "AttemptingGoBack") => ~SameLeaf(j, k)

(***************************************************************************)
(* A quoted-CSV reader: a field that starts with a quote runs to its       *)
(* closing quote, a doubled quote inside it standing for one quote; any    *)
(* other field is bare and runs to the next comma or newline.  The reader  *)
(* is lenient: a quote inside a bare field is an ordinary character.       *)
(***************************************************************************)
RECURSIVE ReadCsv(_, _, _, _, _, _)
ReadCsv(text, i, mode, field, row, rows) ==
  IF i > Len(text) THEN Append(rows, Append(row, field))
  ELSE LET c == text[i] IN
       IF mode = "quoted"
       THEN IF c = Quote
            THEN ReadCsv(text, i + 1, "closing", field, row, rows)
            ELSE ReadCsv(text, i + 1, "quoted", Append(field, c), row, rows)
       ELSE IF c = Comma
            THEN ReadCsv(text, i + 1, "start", <<>>, Append(row, field), rows)
       ELSE IF c = NewLine
            THEN ReadCsv(text, i + 1, "start", <<>>, <<>>, Append(rows, Append(row, field)))
       ELSE IF c = Quote /\ mode = "start"
            THEN ReadCsv(text, i + 1, "quoted", <<>>, row, rows)
       ELSE IF c = Quote /\ mode = "closing"
            THEN ReadCsv(text, i + 1, "quoted", Append(field, Quote), row, rows)
       ELSE ReadCsv(text, i + 1, "bare", Append(field, c), row, rows)

ParseCsv(text) == IF text = <<>> THEN <<>> ELSE ReadCsv(text, 1, "start", <<>>, <<>>, <<>>)

UniformStrings(data) ==
  /\ data # <<>>
  /\ \A r \in 1..Len(data) :
       /\ ObjectKeys(data[r]) = ObjectKeys(data[1])
       /\ \A i \in 1..Len(data[r]) : IsString(data[r][i][2])

(***************************************************************************)
(* C13: for every non-empty array of objects with the same keys and string *)
(* values over an alphabet with the quote, the comma and the newline,      *)
(* reading convertToCsv's text with a quoted-CSV reader gives the header   *)
(* and then the same rows, field values and field order.                   *)
(***************************************************************************)
C13_RoundTrip ==
  (pc = "Return" /\ fn = "convertToCsv" /\ UniformStrings(arg))
  => ParseCsv(result)
       = <<ObjectKeys(arg[1])>>
         \o [r \in 1..Len(arg) |-> [i \in 1..Len(arg[r]) |-> arg[r][i][2]]]

(***************************************************************************)
(* C14: the serializer's field rule, written from the rule itself.  A      *)
(* string has every quote doubled and is wrapped in quotes when it holds   *)
(* a comma or a newline; a null or absent value gives an empty field; the  *)
(* first line is the first object's keys, each between quotes; lines and   *)
(* fields follow the input order, nothing dropped.  He said "hi", bye      *)
(* gives "He said ""hi"", bye", and the empty array gives the empty text.  *)
(***************************************************************************)
QuotesBefore(text, i) == Cardinality({ j \in 1..(i - 1) : text[j] = Quote })

\* the character of text that position p of the doubled text comes from
OriginOf(text, p) ==
  CHOOSE i \in 1..Len(text) :
    \/ p = i + QuotesBefore(text, i)
    \/ text[i] = Quote /\ p = i + QuotesBefore(text, i) + 1

WithQuotesDoubled(text) ==
  [p \in 1..(Len(text) + QuotesBefore(text, Len(text) + 1)) |-> text[OriginOf(text, p)]]

FieldByRule(value) ==
  IF IsNullish(value) THEN <<>>
  ELSE IF \E i \in 1..Len(value) : value[i] \in {Comma, NewLine}
       THEN <<Quote>> \o WithQuotesDoubled(value) \o <<Quote>>
       ELSE WithQuotesDoubled(value)

ValueAt(object, key) ==
  IF \E j \in 1..Len(object) : object[j][1] = key
  THEN object[CHOOSE j \in 1..Len(object) : object[j][1] = key][2]
  ELSE Undefined

RECURSIVE Separated(_, _)
Separated(texts, separator) ==
  IF Len(texts) = 0 THEN <<>>
  ELSE IF Len(texts) = 1 THEN texts[1]
  ELSE Separated(SubSeq(texts, 1, Len(texts) - 1), separator)
       \o <<separator>> \o texts[Len(texts)]

TextByRule(data) ==
  LET keys == [i \in 1..Len(data[1]) |-> data[1][i][1]]
      headerLine == Separated([i \in 1..Len(keys) |-> <<Quote>> \o keys[i] \o <<Quote>>], Comma)
      line(r) == Separated([i \in 1..Len(keys) |-> FieldByRule(ValueAt(data[r], keys[i]))], Comma)
  IN  Separated(<<headerLine>> \o [r \in 1..Len(data) |-> line(r)], NewLine)

StringsOrNull(data) ==
  \A r \in 1..Len(data) : \A i \in 1..Len(data[r]) :
    IsString(data[r][i][2]) \/ IsNullish(data[r][i][2])

\* "He said ""hi"", bye"
ExampleField ==
  <<Quote, "H", "e", " ", "s", "a", "i", "d", " ", Quote, Quote, "h", "i",
    Quote, Quote, Comma, " ", "b", "y", "e", Quote>>

C14_FieldRule ==
  (pc = "Return" /\ fn = "convertToCsv")
  => /\ arg = <<>> => result = <<>>
     /\ (arg # <<>> /\ StringsOrNull(arg)) => result = TextByRule(arg)
     /\ arg = << <<<<KeyA, Example>>>> >>
        => result = <<Quote>> \o KeyA \o <<Quote, NewLine>> \o ExampleField

\* the example value has been serialized, after a field with a bare quote
C14_Witness ==
  /\ pc = "Return"
  /\ fn = "convertToCsv"
  /\ arg = << <<<<KeyA, <<"a", Quote>>>>, <<KeyB, Example>>>> >>
  /\ result = <<Quote>> \o KeyA \o <<Quote, Comma, Quote>> \o KeyB \o <<Quote, NewLine>>
              \o <<"a", Quote, Quote, Comma>> \o ExampleField

(***************************************************************************)
(* C15: the records extracted from a table are exactly its rows after the  *)
(* first that have more than one td cell, in row order; rows with no cell  *)
(* or one cell are left out, so that a table of a header and N rows with   *)
(* two cells or more gives N records.                                      *)
(***************************************************************************)
KeptRows(rows) == { i \in 2..Len(rows) : Len(rows[i]) > 1 }
NthKept(rows, k) ==
  CHOOSE i \in KeptRows(rows) : Cardinality({ j \in KeptRows(rows) : j < i }) = k - 1

C15_ExtractsDataRows ==
  (pc = "Return" /\ fn = "evaluate")
  => /\ Len(result) = Cardinality(KeptRows(arg))
     /\ \A k \in 1..Len(result) : result[k] = RowRecord(arg[NthKept(arg, k)])
     /\ (arg # <<>> /\ \A i \in 2..Len(arg) : Len(arg[i]) >= 2)
        => Len(result) = Len(arg) - 1

\* a header, a row with one cell between two rows with two cells or more
C15_Witness ==
  /\ pc = "Return"
  /\ fn = "evaluate"
  /\ Len(arg) = 4
  /\ Len(arg[1]) = 0
  /\ \E i \in 2..Len(arg) : Len(arg[i]) = 1
  /\ \E i, j \in KeptRows(arg) : i < j /\ arg[i] # arg[j]
  /\ Len(result) = Cardinality(KeptRows(arg))

(***************************************************************************)
(* C19: for every extracted row, the sequence-index and rank fields are    *)
(* the integer their trimmed cell text denotes when that text is a         *)
(* decimal integer, and the non-numeric value for every other text, the    *)
(* empty text included.                                                    *)
(***************************************************************************)
IsDecimalInteger(text) ==
  /\ text # <<>>
  /\ \A i \in 1..Len(text) : text[i] \in Digits

CoercedByRule(field, text) ==
  IF IsDecimalInteger(text)
  THEN IsNumber(field) /\ field[2] = DecimalValue(text)
  ELSE IsNaN(field)

C19_IntegerCoercion ==
  (pc = "Return" /\ fn = "evaluate")
  => \A k \in 1..Len(result) :
       LET cells == arg[NthKept(arg, k)] IN
       /\ CoercedByRule(result[k].sno, Trim(cells[1]))
       /\ Len(cells) >= 3 => CoercedByRule(result[k].rank, Trim(cells[3]))

=============================================================================
